---- MODULE Spec2Model ----
(***************************************************************************)
(* A model of subnamd (src/src/subnamd/subnamd.py): the walltime           *)
(* validator, the job-name derivation, the script generator _prep and the  *)
(* submission driver _submit, run as one command-line invocation.          *)
(*                                                                         *)
(* Text is modelled with strings; a string that the code inspects          *)
(* character by character (the walltime value, the submit command's        *)
(* standard output) is a sequence of one-character strings.  A path is a   *)
(* record [abs, dirs, stem, suffix]: whether it is absolute, its directory *)
(* components, and pathlib's split of the final component into stem and    *)
(* suffix.  A file of the file system is named by [dirs, stem, suffix]     *)
(* with dirs counted from the root.                                        *)
(***************************************************************************)
EXTENDS Integers, Sequences, FiniteSets, TLC

VARIABLES
    pc,         \* where the process is: "cli", "main", "prep", "submit",
                \* or ended: "done" (exit 0), "usage" (click error, exit 2),
                \* "crashed" (uncaught exception, exit 1), "fatal" (sys.exit(msg))
    config,     \* CLI argument CONFIG
    rest,       \* CLI arguments CONFIGS (nargs=-1)
    ncpus,      \* --ncpus
    ngpus,      \* --ngpus
    value,      \* the raw --wall-time value handed to WallTimeParamType.convert
    after0,     \* --after: <<>> for None, <<n>> for the integer n
    chain,      \* --chain
    dry_run,    \* --dry-run
    cwd,        \* the process's working directory (directory components)
    home,       \* the home directory (directory components)
    gitdirs,    \* the directories that contain a .git directory
    files,      \* the file system: file |-> content (a sequence of written fragments)
    configs,    \* main's local list [config, *configs]
    wall_time,  \* the converted --wall-time
    i,          \* position of the loop of _prep or _submit (1-based)
    written,    \* the files _prep opened for writing, in order
    after,      \* _submit's local "after": <<>> for None, <<s>> for the value rendered by str()
    stdout,     \* _submit's local "stdout" (decoded), a sequence of characters
    submitted,  \* the submit invocations made so far, in order
    queued,     \* the scripts the scheduler accepted, in order
    exit_code,  \* the process's exit status, -1 while running
    stderr      \* the message the process ended with

vars == <<pc, config, rest, ncpus, ngpus, value, after0, chain, dry_run, cwd, home,
          gitdirs, files, configs, wall_time, i, written, after, stdout, submitted,
          queued, exit_code, stderr>>

inputs == <<config, rest, ncpus, ngpus, value, after0, chain, dry_run, cwd, home, gitdirs>>

----------------------------------------------------------------------------
(* Bounds of the model *)

\* the most config files on one command line
MaxConfigs == 3
\* the most characters the submit command prints
MaxOut == 4
\* the most characters of an enumerated --wall-time value
MaxLen == 4
\* the deepest directory of the enumerated file systems
MaxDepth == 2

----------------------------------------------------------------------------
(* The ranges and defaults of the options *)

MaxNcpus == 64
DefaultNcpus == 2
MaxNgpus == 4
DefaultNgpus == 1

----------------------------------------------------------------------------
(* Text helpers *)

RECURSIVE Str(_)
\* the string spelled by a sequence of characters
Str(cs) == IF cs = <<>> THEN "" ELSE Head(cs) \o Str(Tail(cs))

RECURSIVE Join(_, _)
\* sep.join(parts)
Join(sep, parts) ==
    IF parts = <<>> THEN ""
    ELSE IF Len(parts) = 1 THEN parts[1]
    ELSE parts[1] \o sep \o Join(sep, Tail(parts))

\* all sequences over S of length at most n
SeqsUpTo(S, n) == UNION {[1..k -> S] : k \in 0..n}

----------------------------------------------------------------------------
(* WallTimeParamType *)

Digit == {"0", "1", "2", "3", "4", "5", "6", "7", "8", "9"}

\* \d+
Digits1(s) == Len(s) >= 1 /\ \A k \in 1..Len(s) : s[k] \in Digit

\* (?P<days>\d+)??
DaysGroup(s) == s = <<>> \/ Digits1(s)

\* (-?(?P<hours>\d+):?)??
HoursGroup(s) ==
    \/ s = <<>>
    \/ \E a \in 0..1, b \in 0..1 :
          /\ a + b < Len(s)
          /\ a = 1 => s[1] = "-"
          /\ b = 1 => s[Len(s)] = ":"
          /\ Digits1(SubSeq(s, a + 1, Len(s) - b))

\* (?P<minutes>\d+)?
MinutesGroup(s) == s = <<>> \/ Digits1(s)

\* (:(?P<seconds>\d+))?
SecondsGroup(s) == s = <<>> \/ (Len(s) >= 2 /\ s[1] = ":" /\ Digits1(Tail(s)))

\* the four groups, in order, consume the whole of s
GroupsMatch(s) ==
    \E a \in 0..Len(s), b \in 0..Len(s), c \in 0..Len(s) :
        /\ a <= b /\ b <= c
        /\ DaysGroup(SubSeq(s, 1, a))
        /\ HoursGroup(SubSeq(s, a + 1, b))
        /\ MinutesGroup(SubSeq(s, b + 1, c))
        /\ SecondsGroup(SubSeq(s, c + 1, Len(s)))

\* pattern.match(value): "^" anchors at the start; "$", without re.MULTILINE,
\* matches at the end of the string and also just before a newline that ends it
PatternMatch(v) ==
    \/ GroupsMatch(v)
    \/ Len(v) >= 1 /\ v[Len(v)] = "\n" /\ GroupsMatch(SubSeq(v, 1, Len(v) - 1))

----------------------------------------------------------------------------
(* pathlib *)

\* path.name
Name(p) == p.stem \o p.suffix

\* path.with_suffix(suffix)
WithSuffix(p, suffix) == [p EXCEPT !.suffix = suffix]

\* path.parent, as a directory path
Parent(p) == [abs |-> p.abs, dirs |-> p.dirs]

\* the directory components, from the root, that the operating system resolves the
\* directory path d to when the working directory is wd
ResolveDir(wd, d) == IF d.abs THEN d.dirs ELSE wd \o d.dirs

\* the file the path p names when the working directory is wd
ResolveFile(wd, p) ==
    [dirs |-> ResolveDir(wd, Parent(p)), stem |-> p.stem, suffix |-> p.suffix]

\* path.absolute().parts without the root
AbsoluteParts(wd, p) == ResolveDir(wd, Parent(p)) \o <<Name(p)>>

\* parent.name: the last component, "" for the root
DirName(d) == IF d = <<>> THEN "" ELSE d[Len(d)]

\* the parts of  name / relative : pathlib drops an empty segment
NameJoin(name, relative) == IF name = "" THEN relative ELSE <<name>> \o relative

----------------------------------------------------------------------------
(* _path_relative_to_root, _jobname *)

\* the value None
None == <<>>

RECURSIVE WalkParentsHomeFirst(_, _, _, _)
\* WalkParents with the two tests exchanged: the home directory is tested first
WalkParentsHomeFirst(parts, n, hm, git) ==
    LET parent   == SubSeq(parts, 1, n)
        relative == SubSeq(parts, n + 1, Len(parts))
    IN  IF parent = hm THEN relative
        ELSE IF parent \in git THEN NameJoin(DirName(parent), relative)
        ELSE IF n = 0 THEN None
        ELSE WalkParentsHomeFirst(parts, n - 1, hm, git)

RECURSIVE WalkParents(_, _, _, _)
\* the loop "for parent in path.parents", at the parent made of the first n parts
WalkParents(parts, n, hm, git) ==
    LET parent   == SubSeq(parts, 1, n)
        relative == SubSeq(parts, n + 1, Len(parts))
    IN  IF parent \in git THEN NameJoin(DirName(parent), relative)
        ELSE IF parent = hm THEN relative
        ELSE IF n = 0 THEN None
        ELSE WalkParents(parts, n - 1, hm, git)

\* the parts of the path _path_relative_to_root returns, or None
PathRelativeToRoot(parts, hm, git) == WalkParents(parts, Len(parts) - 1, hm, git)

\* _jobname, given the parts _path_relative_to_root returned
Jobname(relative) == Join("_", relative)

----------------------------------------------------------------------------
(* _prep: the text written for one config *)

\* ScriptText with the second test "ngpus > 0" dropped: the device flag is always written
ScriptTextDevicesAlways(p, jobname, wt, nc, ng) ==
       << "#!/bin/bash\n", "\n",
          "#SBATCH --job-name=", jobname, "\n",
          "#SBATCH --time=", wt, "\n",
          "#SBATCH --nodes=1\n",
          "#SBATCH --ntasks-per-node=", ToString(nc), "\n" >>
    \o (IF ng > 0 THEN << "#SBATCH --gpus=", ToString(ng), "\n" >> ELSE << >>)
    \o << "\n", "module purge\n", "module load namd3\n", "\n" >>
    \o << "namd3 +p ", ToString(nc), " +setcpuaffinity" >>
    \o << " +devices ${CUDA_VISIBLE_DEVICES}" >>
    \o << " ", Name(p), " > ", p.stem \o ".out", "\n" >>

\* what one iteration of _prep writes to the script of the config path p
ScriptText(p, jobname, wt, nc, ng) ==
       << "#!/bin/bash\n", "\n",
          "#SBATCH --job-name=", jobname, "\n",
          "#SBATCH --time=", wt, "\n",
          "#SBATCH --nodes=1\n",
          "#SBATCH --ntasks-per-node=", ToString(nc), "\n" >>
    \o (IF ng > 0 THEN << "#SBATCH --gpus=", ToString(ng), "\n" >> ELSE << >>)
    \o << "\n", "module purge\n", "module load namd3\n", "\n" >>
    \o << "namd3 +p ", ToString(nc), " +setcpuaffinity" >>
    \o (IF ng > 0 THEN << " +devices ${CUDA_VISIBLE_DEVICES}" >> ELSE << >>)
    \o << " ", Name(p), " > ", p.stem \o ".out", "\n" >>

----------------------------------------------------------------------------
(* _submit: helpers *)

\* str.isspace for the characters of the model
IsSpace(c) == c \in {" ", "\n"}

RECURSIVE SplitFrom(_, _, _)
\* str.split(): cur is the token being read, acc the tokens read
SplitFrom(s, cur, acc) ==
    IF s = <<>> THEN (IF cur = "" THEN acc ELSE Append(acc, cur))
    ELSE IF IsSpace(Head(s))
         THEN SplitFrom(Tail(s), "", IF cur = "" THEN acc ELSE Append(acc, cur))
         ELSE SplitFrom(Tail(s), cur \o Head(s), acc)

\* stdout.split()
Split(s) == SplitFrom(s, "", <<>>)

\* the arguments after "sbatch <script>": the dependency clause, if any
DependencyArgs(aft) ==
    IF aft # None THEN << "--dependency=afterok:" \o aft[1] >> ELSE << >>

\* NextAfter with the carry dropped: "after" is never reassigned
NextAfterNeverCarried(ch, aft, jobid) == aft

\* NextAfter without the test of "chain": "after" is always reassigned
NextAfterAlwaysCarried(ch, aft, jobid) == <<jobid>>

\* the value "after" is given at the end of an iteration that parsed jobid
NextAfter(ch, aft, jobid) == IF ch THEN <<jobid>> ELSE aft

\* str(e) for the exception subprocess.run raises when the invocation ends with rc
ErrorText(rc) ==
    IF rc = "nonzero" THEN "CalledProcessError: non-zero exit status" ELSE "OSError"

\* str(e) for the IndexError of [][-1]
IndexErrorText == "list index out of range"

\* how a submit invocation can end: the command could not be run, it exited
\* non-zero, or it exited zero
ReturnCodes == {"oserror", "nonzero", "ok"}

\* what the submit command can print: a line of at most MaxOut characters, with
\* or without the newline that ends it
OutChars == {" ", "7"}
Stdouts ==
    LET lines == SeqsUpTo(OutChars, MaxOut)
    IN  lines \cup {Append(l, "\n") : l \in lines}

----------------------------------------------------------------------------
(* The command-line run *)

\* click's call of WallTimeParamType.convert on the --wall-time value
Convert ==
    /\ pc = "cli"
    /\ IF PatternMatch(value)
       THEN /\ wall_time' = value
            /\ pc' = "main"
            /\ UNCHANGED <<exit_code, stderr>>
       ELSE /\ pc' = "usage"
            /\ exit_code' = 2
            /\ stderr' = "is not a valid walltime"
            /\ UNCHANGED wall_time
    /\ UNCHANGED <<inputs, files, configs, i, written, after, stdout, submitted, queued>>

\* main, up to its call of _prep
Main ==
    /\ pc = "main"
    /\ configs' = <<config>> \o rest
    /\ pc' = "prep"
    /\ i' = 1
    /\ UNCHANGED <<inputs, files, wall_time, written, after, stdout, submitted, queued,
                   exit_code, stderr>>

\* the path of the script of the config path p
ScriptPath(p) == WithSuffix(p, ".slurm")

\* one iteration of the loop of _prep
PrepConfig ==
    /\ pc = "prep"
    /\ i <= Len(configs)
    /\ LET path     == configs[i]
           script   == ResolveFile(cwd, ScriptPath(path))
           relative == PathRelativeToRoot(AbsoluteParts(cwd, path), home, gitdirs)
       IN  /\ written' = Append(written, script)
           /\ IF relative = None
              THEN \* open(..., "w") truncated the file, then None.parts raised
                   /\ files' = (script :> << >>) @@ files
                   /\ pc' = "crashed"
                   /\ exit_code' = 1
                   /\ stderr' = "AttributeError"
                   /\ UNCHANGED i
              ELSE /\ files' = (script :> ScriptText(path, Jobname(relative), Str(wall_time),
                                                     ncpus, ngpus)) @@ files
                   /\ i' = i + 1
                   /\ UNCHANGED <<pc, exit_code, stderr>>
    /\ UNCHANGED <<inputs, configs, wall_time, after, stdout, submitted, queued>>

\* ShouldSubmit without the test: _submit is always called
ShouldSubmitAlways(dry) == TRUE

\* main's test "if not dry_run"
ShouldSubmit(dry) == ~dry

\* the value of the parameter "after" of _submit, rendered as str() renders it
AfterArg(a0) == IF a0 = << >> THEN None ELSE << ToString(a0[1]) >>

\* _prep returns to main, which calls _submit or returns
PrepReturn ==
    /\ pc = "prep"
    /\ i > Len(configs)
    /\ IF ShouldSubmit(dry_run)
       THEN /\ pc' = "submit"
            /\ i' = 1
            /\ after' = AfterArg(after0)
            /\ UNCHANGED exit_code
       ELSE /\ pc' = "done"
            /\ exit_code' = 0
            /\ UNCHANGED <<i, after>>
    /\ UNCHANGED <<inputs, files, configs, wall_time, written, stdout, submitted, queued,
                   stderr>>

\* the invocation of one iteration of _submit: the script argument and the
\* dependency arguments of cmdline, the cwd argument, and how it ended
Invocation(path, aft, rc) ==
    [script |-> ScriptPath(path), deps |-> DependencyArgs(aft), cwd |-> Parent(path),
     rc |-> rc]

\* the file the submit command reads: its script argument, resolved from the
\* working directory it was started in
SubmittedFile(wd, inv) == ResolveFile(ResolveDir(wd, inv.cwd), inv.script)

\* Except with the exception swallowed: the loop goes on to the next config
ExceptSwallowed(idx, msg) == [pc |-> "submit", i |-> idx + 1, exit_code |-> -1, stderr |-> msg]

\* the handler "except Exception as e: sys.exit(f"{e}")", entered at position idx
\* with the exception text msg: where the process is afterwards
Except(idx, msg) == [pc |-> "fatal", i |-> idx, exit_code |-> 1, stderr |-> msg]

\* one iteration of the loop of _submit; the scheduler accepts a script only if
\* the file exists
SubmitConfig ==
    /\ pc = "submit"
    /\ i <= Len(configs)
    /\ \E rc \in ReturnCodes : \E out \in (IF rc = "ok" THEN Stdouts ELSE {<< >>}) :
          LET inv    == Invocation(configs[i], after, rc)
              tokens == Split(out)
              raised == IF rc # "ok" THEN Except(i, ErrorText(rc))
                        ELSE Except(i, IndexErrorText)
          IN  /\ rc = "ok" => SubmittedFile(cwd, inv) \in DOMAIN files
              /\ submitted' = Append(submitted, inv)
              /\ queued' = IF rc = "ok" THEN Append(queued, SubmittedFile(cwd, inv))
                           ELSE queued
              /\ stdout' = IF rc = "ok" THEN out ELSE stdout
              /\ IF rc # "ok" \/ tokens = << >>
                 THEN /\ pc' = raised.pc
                      /\ i' = raised.i
                      /\ exit_code' = raised.exit_code
                      /\ stderr' = raised.stderr
                      /\ UNCHANGED after
                 ELSE /\ after' = NextAfter(chain, after, tokens[Len(tokens)])
                      /\ i' = i + 1
                      /\ UNCHANGED <<pc, exit_code, stderr>>
    /\ UNCHANGED <<inputs, files, configs, wall_time, written>>

\* _submit returns, main returns
SubmitReturn ==
    /\ pc = "submit"
    /\ i > Len(configs)
    /\ pc' = "done"
    /\ exit_code' = 0
    /\ UNCHANGED <<inputs, files, configs, wall_time, i, written, after, stdout, submitted,
                   queued, stderr>>

Next == Convert \/ Main \/ PrepConfig \/ PrepReturn \/ SubmitConfig \/ SubmitReturn

----------------------------------------------------------------------------
(* Initial states *)

RelPath(dirs, stem, suffix) == [abs |-> FALSE, dirs |-> dirs, stem |-> stem, suffix |-> suffix]
AbsPath(dirs, stem, suffix) == [abs |-> TRUE, dirs |-> dirs, stem |-> stem, suffix |-> suffix]

HomeU == << "home", "u" >>
Proj == << "home", "u", "proj" >>

\* the default of --wall-time
DefaultWallTime == << "1", "2", ":", "0", "0", ":", "0", "0" >>

\* the state of the process when click starts to parse; every config exists
InitProcess ==
    /\ pc = "cli"
    /\ files = [f \in {ResolveFile(cwd, p) : p \in {config} \cup {rest[k] : k \in DOMAIN rest}}
                  |-> << "config" >>]
    /\ configs = << >>
    /\ wall_time = << >>
    /\ i = 0
    /\ written = << >>
    /\ after = None
    /\ stdout = << >>
    /\ submitted = << >>
    /\ queued = << >>
    /\ exit_code = -1
    /\ stderr = ""

\* configs of the runs that explore chaining and failure: one under the
\* repository, one outside both the repository and the home directory
RunArgs == { RelPath(<< >>, "a", ".conf"), AbsPath(<< "tmp" >>, "d", ".conf") }

Init ==
    /\ config \in RunArgs
    /\ rest \in SeqsUpTo(RunArgs, MaxConfigs - 1)
    /\ ncpus = DefaultNcpus
    /\ ngpus = DefaultNgpus
    /\ value \in {DefaultWallTime, << "1", "h" >>}
    /\ after0 \in {<< >>, << 5 >>}
    /\ chain \in BOOLEAN
    /\ dry_run \in BOOLEAN
    /\ cwd = Proj
    /\ home = HomeU
    /\ gitdirs = {Proj}
    /\ InitProcess

Spec == Init /\ [][Next]_vars

\* a run with the defaults of every option, which submits one config
DefaultRun ==
    /\ config = RelPath(<< >>, "a", ".conf")
    /\ rest = << >>
    /\ ncpus = DefaultNcpus
    /\ ngpus = DefaultNgpus
    /\ value = DefaultWallTime
    /\ after0 = << >>
    /\ chain = FALSE
    /\ dry_run = FALSE
    /\ cwd = Proj
    /\ home = HomeU
    /\ gitdirs = {Proj}

\* configs of the runs that explore paths: relative without and with a directory
\* component, with the scheduler script's own suffix, and absolute
PathArgs ==
    { RelPath(<< >>, "a", ".conf"), RelPath(<< "run" >>, "b", ".conf"),
      RelPath(<< >>, "c", ".slurm"), AbsPath(HomeU, "e", ".namd") }

InitPaths ==
    /\ config \in PathArgs
    /\ rest \in SeqsUpTo(PathArgs, MaxConfigs - 1)
    /\ ncpus = DefaultNcpus
    /\ ngpus = DefaultNgpus
    /\ value = DefaultWallTime
    /\ after0 = << >>
    /\ chain = FALSE
    /\ dry_run \in BOOLEAN
    /\ cwd = Proj
    /\ home = HomeU
    /\ gitdirs = {Proj}
    /\ InitProcess

SpecPaths == InitPaths /\ [][Next]_vars

\* the runs that explore the resource options
InitPrep ==
    /\ \/ /\ config \in {RelPath(<< >>, "a", ".conf"), RelPath(<< "run" >>, "b", ".conf")}
          /\ rest = << >>
          /\ ncpus \in 1..MaxNcpus
          /\ ngpus \in 0..MaxNgpus
          /\ value = DefaultWallTime
          /\ after0 = << >>
          /\ chain = FALSE
          /\ dry_run = TRUE
          /\ cwd = Proj
          /\ home = HomeU
          /\ gitdirs = {Proj}
       \/ DefaultRun
    /\ InitProcess

SpecPrep == InitPrep /\ [][Next]_vars

\* the directories of the enumerated file systems
DirNames == {"u", "p"}
Dirs == SeqsUpTo(DirNames, MaxDepth)

\* the runs that explore where the config, the home directory and the
\* repositories are
InitName ==
    /\ \/ /\ cwd \in Dirs
          /\ config \in {RelPath(<< >>, "a", ".conf"), AbsPath(<< "u" >>, "a", ".conf")}
          /\ rest = << >>
          /\ ncpus = DefaultNcpus
          /\ ngpus = DefaultNgpus
          /\ value = DefaultWallTime
          /\ after0 = << >>
          /\ chain = FALSE
          /\ dry_run = TRUE
          /\ home \in Dirs
          /\ gitdirs \in {{d, e} : d \in Dirs, e \in Dirs} \cup {{}}
       \/ DefaultRun
    /\ InitProcess

SpecName == InitName /\ [][Next]_vars

\* the characters of the enumerated --wall-time values
WallChars == {"1", ":", "-", "\n", "x"}

\* the values the specification names
WallExamples ==
    { << "1", "2", ":", "0", "0", ":", "0", "0" >>, << "2", "-", "0", "4", ":", "3", "0" >>,
      << "4", "5" >>, << "3", "0", ":", "1", "5" >> }

\* the runs that explore the --wall-time value
InitWall ==
    /\ \/ /\ config = RelPath(<< >>, "a", ".conf")
          /\ rest = << >>
          /\ ncpus = DefaultNcpus
          /\ ngpus = DefaultNgpus
          /\ value \in SeqsUpTo(WallChars, MaxLen) \cup WallExamples
          /\ after0 = << >>
          /\ chain = FALSE
          /\ dry_run = TRUE
          /\ cwd = Proj
          /\ home = HomeU
          /\ gitdirs = {Proj}
       \/ DefaultRun
    /\ InitProcess

SpecWall == InitWall /\ [][Next]_vars

----------------------------------------------------------------------------
(* Properties of the submission driver and of main *)

\* the command line's list of configs
Cfgs == <<config>> \o rest

\* the dependency clause for the job id x
Clause(x) == "--dependency=afterok:" \o x

\* the dependency arguments the initial --after calls for
InitialDeps == IF after0 = << >> THEN << >> ELSE << Clause(ToString(after0[1])) >>

\* the last whitespace-delimited token of the output s, which has one
LastTokenOf(s) ==
    LET last  == CHOOSE k \in 1..Len(s) :
                     /\ s[k] \notin {" ", "\n"}
                     /\ \A m \in (k + 1)..Len(s) : s[m] \in {" ", "\n"}
        first == CHOOSE k \in 1..last :
                     /\ \A m \in k..last : s[m] \notin {" ", "\n"}
                     /\ k > 1 => s[k - 1] \in {" ", "\n"}
    IN  Str(SubSeq(s, first, last))

\* C1: with chaining enabled, the command line of the first submission carries a
\* dependency clause exactly when an initial --after id was given, and then the
\* clause names that id; the command line of every later submission carries exactly
\* one dependency clause, which names the last whitespace-delimited token of the
\* output of the submission before it.
C1_Chaining ==
    [][ (chain /\ Len(submitted') = Len(submitted) + 1) =>
            LET inv == submitted'[Len(submitted')]
            IN  IF Len(submitted) = 0
                THEN inv.deps = InitialDeps
                ELSE inv.deps = << Clause(LastTokenOf(stdout)) >> ]_vars

\* a chained run of three submissions without --after in which the second and the
\* third submission depend on different jobs
C1_Witness ==
    /\ chain /\ after0 = << >>
    /\ Len(submitted) = 3
    /\ submitted[1].deps = << >>
    /\ submitted[2].deps = << Clause("7") >>
    /\ submitted[3].deps = << Clause("77") >>

\* C2: a submit invocation that fails (non-zero exit or I/O error) is the last one
\* made: the process has ended with a non-zero status and the error as its message,
\* no config after it was submitted, and the submissions before it were all accepted
\* and are still queued.
C2_FailureStops ==
    \A k \in 1..Len(submitted) :
        submitted[k].rc # "ok" =>
            /\ k = Len(submitted)
            /\ pc = "fatal"
            /\ exit_code \notin {0, -1}
            /\ stderr = ErrorText(submitted[k].rc)
            /\ Len(queued) = k - 1
            /\ \A j \in 1..(k - 1) :
                   /\ submitted[j].rc = "ok"
                   /\ queued[j].stem = Cfgs[j].stem

\* the submit command exits non-zero on the second of three configs
C2_Witness ==
    /\ Len(Cfgs) = 3
    /\ Len(submitted) = 2
    /\ submitted[2].rc = "nonzero"
    /\ Len(queued) = 1
    /\ pc = "fatal"

\* a generated script of the config path c exists
HasScript(c) ==
    \E f \in DOMAIN files :
        /\ f.dirs = (IF c.abs THEN c.dirs ELSE cwd \o c.dirs)
        /\ f.stem = c.stem
        /\ f.suffix = ".slurm"
        /\ files[f] # << >>
        /\ files[f][1] = "#!/bin/bash\n"

\* C3: in a run with --dry-run the submit command is never invoked, whatever the
\* number of configs, --chain and --after, and when main returns every config has
\* its script; in a run without --dry-run every submit invocation comes after
\* _prep has written the script of every config.
C3_DryRun ==
    /\ dry_run => submitted = << >> /\ queued = << >>
    /\ (dry_run /\ pc = "done") => \A k \in 1..Len(Cfgs) : HasScript(Cfgs[k])
    /\ submitted # << >> =>
           /\ ~dry_run
           /\ Len(written) = Len(Cfgs)
           /\ \A k \in 1..Len(Cfgs) : HasScript(Cfgs[k])

\* a dry run of three configs with --chain and --after has returned
C3_Witness ==
    /\ dry_run /\ chain /\ after0 # << >>
    /\ pc = "done"
    /\ Len(Cfgs) = 3
    /\ Len(written) = 3

\* C4: with chaining disabled every submission's command line carries the
\* dependency clause of the initial --after id when one was given and no
\* dependency clause when none was given, whatever job ids were parsed.
C4_NoChaining ==
    ~chain => \A k \in 1..Len(submitted) : submitted[k].deps = InitialDeps

\* an unchained run with --after made a third submission after two job ids were parsed
C4_Witness ==
    /\ ~chain /\ after0 = << 5 >>
    /\ Len(submitted) = 3
    /\ Split(stdout) # << >>
    /\ submitted[3].deps = << Clause("5") >>

\* C5: a run without --dry-run that reached _submit ends with a non-zero status
\* exactly when some submit invocation failed (non-zero exit or I/O error); when
\* every invocation exited successfully, whatever it printed, every config was
\* submitted once, in input order, and the exit status is zero.
C5_ExitStatus ==
    (~dry_run /\ pc \in {"done", "fatal"}) =>
        /\ exit_code # 0 <=> \E k \in 1..Len(submitted) : submitted[k].rc # "ok"
        /\ (\A k \in 1..Len(submitted) : submitted[k].rc = "ok") =>
               /\ exit_code = 0
               /\ Len(submitted) = Len(Cfgs)
               /\ \A k \in 1..Len(Cfgs) : submitted[k].script.stem = Cfgs[k].stem

----------------------------------------------------------------------------
(* Properties of the script generator *)

\* _prep has returned
PrepCompleted == pc \in {"submit", "done", "fatal"}

\* the content is that of a generated script
IsScript(content) == content # << >> /\ content[1] = "#!/bin/bash\n"

\* C6: after _prep has completed, every config has exactly one generated script:
\* a file of the config's directory with the config's stem and a suffix other
\* than the config's own.
C6_OneScript ==
    PrepCompleted =>
        \A k \in 1..Len(Cfgs) :
            LET c == Cfgs[k]
            IN  Cardinality({f \in DOMAIN files :
                                /\ f.dirs = (IF c.abs THEN c.dirs ELSE cwd \o c.dirs)
                                /\ f.stem = c.stem
                                /\ f.suffix # c.suffix
                                /\ IsScript(files[f])}) = 1

\* C7: a generated script has no "#SBATCH --gpus" directive and no "+devices" flag
\* in its run line when ngpus = 0, and has the directive "#SBATCH --gpus=<ngpus>"
\* and the flag "+devices ${CUDA_VISIBLE_DEVICES}" in its run line when ngpus is in
\* 1..4, for every ncpus in 1..64.
C7_GpuLines ==
    \A f \in DOMAIN files :
        IsScript(files[f]) =>
            LET text    == files[f]
                gpus    == {k \in 1..Len(text) : text[k] = "#SBATCH --gpus="}
                runs    == {k \in 1..Len(text) : text[k] = "namd3 +p "}
                devices == {k \in 1..Len(text) : text[k] = " +devices ${CUDA_VISIBLE_DEVICES}"}
            IN  /\ Cardinality(runs) = 1
                /\ \A r \in runs : text[r + 1] = ToString(ncpus)
                /\ ngpus = 0 => gpus = {} /\ devices = {}
                /\ ngpus \in 1..4 =>
                       /\ Cardinality(gpus) = 1
                       /\ \A k \in gpus : text[k + 1] = ToString(ngpus) /\ text[k + 2] = "\n"
                       /\ Cardinality(devices) = 1
                       /\ \A d \in devices : \A r \in runs : d > r

\* a script was generated without GPUs for 64 CPUs
C7_Witness ==
    /\ ngpus = 0 /\ ncpus = 64
    /\ pc = "done"
    /\ Len(written) = 1
    /\ IsScript(files[written[1]])

\* C10: the script argument of every submit invocation, resolved from the working
\* directory the command is run in, names the file _prep wrote for that config.
C10_SameFile ==
    \A k \in 1..Len(submitted) :
        LET inv == submitted[k]
            wd  == IF inv.cwd.abs THEN inv.cwd.dirs ELSE cwd \o inv.cwd.dirs
        IN  written[k] = [dirs   |-> IF inv.script.abs THEN inv.script.dirs
                                     ELSE wd \o inv.script.dirs,
                          stem   |-> inv.script.stem,
                          suffix |-> inv.script.suffix]

----------------------------------------------------------------------------
(* Properties of the job name *)

\* the parts of the absolute path of the config
CfgParts == (IF config.abs THEN config.dirs ELSE cwd \o config.dirs)
            \o << config.stem \o config.suffix >>

\* the lengths of the ancestors of the config that hold a repository or are home
Roots == {n \in 0..(Len(CfgParts) - 1) :
             SubSeq(CfgParts, 1, n) \in gitdirs \/ SubSeq(CfgParts, 1, n) = home}

\* the nearest of them
Nearest == CHOOSE n \in Roots : \A m \in Roots : m <= n

\* C9: the job name is decided at the nearest ancestor of the config's absolute
\* path that holds a .git directory or is the home directory: if it holds a .git
\* directory the name is the ancestor's own name (the root has none) followed by
\* the components of the path below it, joined with underscores; otherwise it is
\* the components below home, joined with underscores, whatever repositories
\* lie further up.
C9_Jobname ==
    (Roots # {} /\ written # << >>) =>
        LET root  == SubSeq(CfgParts, 1, Nearest)
            below == SubSeq(CfgParts, Nearest + 1, Len(CfgParts))
            text  == files[written[1]]
        IN  /\ IsScript(text)
            /\ text[3] = "#SBATCH --job-name="
            /\ text[4] = IF root \in gitdirs
                         THEN (IF root = << >> THEN Join("_", below)
                               ELSE Join("_", << root[Len(root)] >> \o below))
                         ELSE Join("_", below)

\* the home directory is met first although the root holds a repository
C9_Witness ==
    /\ home = << "u" >>
    /\ gitdirs = {<< >>}
    /\ CfgParts = << "u", "p", "a.conf" >>
    /\ written # << >>
    /\ files[written[1]][4] = "p_a.conf"

----------------------------------------------------------------------------
(* Properties of the walltime validator *)

\* v matches [days][[-]hours:][minutes][:seconds], each component being digits
InGrammar(v) ==
    \E a \in 0..Len(v), b \in 0..Len(v), c \in 0..Len(v) :
        LET days    == SubSeq(v, 1, a)
            hours   == SubSeq(v, a + 1, b)
            minutes == SubSeq(v, b + 1, c)
            seconds == SubSeq(v, c + 1, Len(v))
            IsNumber(s) == s # << >> /\ \A k \in 1..Len(s) : s[k] \in Digit
        IN  /\ a <= b /\ b <= c
            /\ days = << >> \/ IsNumber(days)
            /\ \/ hours = << >>
               \/ hours[Len(hours)] = ":" /\ IsNumber(SubSeq(hours, 1, Len(hours) - 1))
               \/ /\ hours[1] = "-" /\ hours[Len(hours)] = ":"
                  /\ IsNumber(SubSeq(hours, 2, Len(hours) - 1))
            /\ minutes = << >> \/ IsNumber(minutes)
            /\ seconds = << >> \/ (seconds[1] = ":" /\ IsNumber(Tail(seconds)))

\* v has a character that is no digit, colon or hyphen
HasForeignChar(v) == \E k \in 1..Len(v) : v[k] \notin Digit \cup {":", "-"}

\* the components of v are out of order: a hyphen after a colon, a second
\* hyphen, or a third colon
Misordered(v) ==
    \/ \E j \in 1..Len(v), k \in 1..Len(v) : j < k /\ v[j] = ":" /\ v[k] = "-"
    \/ Cardinality({k \in 1..Len(v) : v[k] = "-"}) > 1
    \/ Cardinality({k \in 1..Len(v) : v[k] = ":"}) > 2

\* C8: convert returns every value of the grammar unchanged, the empty string
\* included, and signals a validation error for every value that has a character
\* other than a digit, a colon or a hyphen, or whose components are out of order.
C8_Validator ==
    pc # "cli" =>
        /\ InGrammar(value) => pc # "usage" /\ wall_time = value
        /\ (HasForeignChar(value) \/ Misordered(value)) => pc = "usage"

====
